---- MODULE Spec2Model ----
(***************************************************************************)
(* Model of src/data/dataloader.py: class DataLoader, an iterable batch    *)
(* sampler.  __iter__ is a generator: one NextBatch step is one resumption *)
(* of it (next()), which runs the body up to the next yield, to a raised   *)
(* exception or to the end of the body.  Several generators of the same    *)
(* DataLoader may be alive at once; they interleave only at their yields.  *)
(*                                                                         *)
(* Strings are sequences of one-character strings.  A tensor or array is a *)
(* record [kind, shape, data]: kind is "Tensor" or "ndarray", shape the    *)
(* tuple of dimensions, data the content (a record's content tag, or the   *)
(* sequence of the stacked values' contents).                              *)
(***************************************************************************)
EXTENDS Integers, Sequences, FiniteSets, TLC

\* ------------------------------------------------------------------ bounds
\* Largest dataset of the batching specification (Spec).
MaxN == 5
\* Largest dataset of the record-content specification (SpecData).
MaxRecs == 2
\* Largest dataset of the two-consumer specification (SpecPasses).
MaxPassN == 2
\* Largest batch_size.
MaxBatch == 3
\* How many batch sizes below 1 are tried: 0, -1, ...
NonPositive == 2

BatchSizes == (1 - NonPositive)..MaxBatch
\* The generators (passes) a consumer may hold at the same time.
Passes == {1, 2}

VARIABLES
    dataset,     \* self.dataset: the sequence of records; record i is dataset[i+1]
    batch_size,  \* self.batch_size
    shuffle,     \* self.shuffle
    drop_last,   \* self.drop_last
    consumers,   \* which generators the environment uses
    pc,          \* per generator: where its frame stands
    order,       \* per generator: the contents of index_iterator
    pos,         \* per generator: how many indices index_iterator has handed out
    batch,       \* per generator: the local list `batch`, as dataset indices
    out,         \* per generator: the batches its consumer has received so far
    prev,        \* per generator slot: how the generator before this one ended
    lenResult    \* <<>>, or <<r>> with r what the last call of __len__ gave

config == <<dataset, batch_size, shuffle, drop_last>>
locals == <<pc, order, pos, batch, out, prev>>
vars == <<dataset, batch_size, shuffle, drop_last, consumers, pc, order, pos,
          batch, out, prev, lenResult>>

\* ----------------------------------------------------------- text helpers
DigitChars == <<"0", "1", "2", "3", "4", "5", "6", "7", "8", "9">>

IsDigit(c) == \E d \in 1..10 : DigitChars[d] = c

DigitVal(c) == (CHOOSE d \in 1..10 : DigitChars[d] = c) - 1

\* The decimal text of a natural number.
RECURSIVE Digits(_)
Digits(n) ==
    IF n < 10 THEN <<DigitChars[n + 1]>>
    ELSE Append(Digits(n \div 10), DigitChars[(n % 10) + 1])

\* str.split(sep): the segments between the occurrences of sep.
RECURSIVE split(_, _)
split(s, sep) ==
    IF \E i \in 1..Len(s) : s[i] = sep
    THEN LET i == CHOOSE k \in 1..Len(s) :
                      s[k] = sep /\ \A m \in 1..(k - 1) : s[m] # sep
         IN  <<SubSeq(s, 1, i - 1)>> \o split(SubSeq(s, i + 1, Len(s)), sep)
    ELSE <<s>>

\* int(text) accepts an optional sign followed by at least one digit (over
\* the alphabet of letters, digits, "_", "-" and "+").
IntBody(text) ==
    IF Len(text) > 0 /\ text[1] \in {"-", "+"} THEN Tail(text) ELSE text

IntAccepts(text) ==
    /\ Len(IntBody(text)) > 0
    /\ \A i \in 1..Len(IntBody(text)) : IsDigit(IntBody(text)[i])

RECURSIVE DecimalValue(_)
DecimalValue(ds) ==
    IF ds = <<>> THEN 0
    ELSE 10 * DecimalValue(SubSeq(ds, 1, Len(ds) - 1)) + DigitVal(ds[Len(ds)])

\* int(text): [ok |-> TRUE, val |-> n], or ValueError.
int(text) ==
    IF IntAccepts(text)
    THEN [ok |-> TRUE,
          val |-> IF text[1] = "-" THEN 0 - DecimalValue(IntBody(text))
                  ELSE DecimalValue(IntBody(text))]
    ELSE [ok |-> FALSE, err |-> "ValueError"]

\* ------------------------------------------------------------ float32
RECURSIVE Pow2Floor(_)
Pow2Floor(n) == IF n < 2 THEN 1 ELSE 2 * Pow2Floor(n \div 2)

\* The float32 nearest to the natural number n (ties to even): a float32
\* has a 24-bit significand.
Float32Abs(n) ==
    IF n < 2^24 THEN n
    ELSE LET ulp == Pow2Floor(n) \div 2^23
             q == n \div ulp
             r == n % ulp
         IN  IF 2 * r < ulp THEN q * ulp
             ELSE IF 2 * r > ulp THEN (q + 1) * ulp
             ELSE IF q % 2 = 0 THEN q * ulp
             ELSE (q + 1) * ulp

\* Tensor(...).float() of one Python int.
Float32(n) == IF n < 0 THEN 0 - Float32Abs(0 - n) ELSE Float32Abs(n)

\* ------------------------------------------------ DataLoader.__iter__ helpers
RECURSIVE ValuesOf(_, _)
\* As ValuesOf, each value put in front of the list.
ValuesOfPrepended(recs, key) ==
    IF recs = <<>> THEN <<>>
    ELSE LET rest == ValuesOf(SubSeq(recs, 1, Len(recs) - 1), key)
             last == recs[Len(recs)]
         IN  IF key \in DOMAIN last THEN <<last[key]>> \o rest ELSE rest

\* The values of field `key` of the records of `recs`, in record order
\* (lines 42-46).
ValuesOf(recs, key) ==
    IF recs = <<>> THEN <<>>
    ELSE LET rest == ValuesOf(SubSeq(recs, 1, Len(recs) - 1), key)
             last == recs[Len(recs)]
         IN  IF key \in DOMAIN last THEN Append(rest, last[key]) ELSE rest

combine_batch_dicts(recs) ==
    [key \in UNION {DOMAIN recs[j] : j \in 1..Len(recs)} |-> ValuesOf(recs, key)]

\* As run_id_to_int, with split("_")[1] for split("_")[-1].
run_id_to_int_second(run_id) ==
    LET parts == split(run_id, "_")
    IN  IF Len(parts) < 2 THEN [ok |-> FALSE, err |-> "IndexError"]
        ELSE int(parts[2])

\* Line 55.
run_id_to_int(run_id) ==
    LET parts == split(run_id, "_") IN int(parts[Len(parts)])

\* torch.stack(values): raises unless every value is a Tensor and all shapes
\* are equal (the list is never empty here).
stack(values) ==
    IF \E j \in 1..Len(values) : values[j].kind # "Tensor"
    THEN [ok |-> FALSE, err |-> "TypeError"]
    ELSE IF \E j \in 1..Len(values) : values[j].shape # values[1].shape
    THEN [ok |-> FALSE, err |-> "RuntimeError"]
    ELSE [ok |-> TRUE,
          val |-> [kind |-> "Tensor",
                   shape |-> <<Len(values)>> \o values[1].shape,
                   data |-> [j \in 1..Len(values) |-> values[j].data]]]

\* Lines 75-86: stack, the bare except that falls back to values[0], and the
\* coercion of what is not a Tensor.
StackField(values) ==
    LET stacked == IF stack(values).ok THEN stack(values).val ELSE values[1]
    IN  [kind |-> "Tensor", shape |-> stacked.shape, data |-> stacked.data]

\* Line 73: Tensor([run_id_to_int(id) for id in values]).float().
IdField(values) ==
    [kind |-> "Tensor",
     shape |-> <<Len(values)>>,
     data |-> [j \in 1..Len(values) |-> Float32(run_id_to_int(values[j]).val)]]

batch_to_tensor(bd) ==
    IF "run_id" \in DOMAIN bd
       /\ \E j \in 1..Len(bd["run_id"]) : ~run_id_to_int(bd["run_id"][j]).ok
    THEN [ok |-> FALSE, err |-> "ValueError"]
    ELSE [ok |-> TRUE,
          val |-> [key \in DOMAIN bd |->
                      IF key = "run_id" THEN IdField(bd[key])
                      ELSE StackField(bd[key])]]

\* The records of a group of dataset indices: batch.append(self.dataset[index]).
RecordsOf(group) == [j \in 1..Len(group) |-> dataset[group[j] + 1]]

\* ----------------------------------------------------------- traversal order
RECURSIVE PermsOf(_)
PermsOf(S) ==
    IF S = {} THEN {<<>>}
    ELSE UNION {{<<x>> \o p : p \in PermsOf(S \ {x})} : x \in S}

Identity(n) == [i \in 1..n |-> i - 1]

\* As index_iterator, the shuffle flag ignored.
index_iterator_permuted == PermsOf(0..(Len(dataset) - 1))

\* Lines 91-94: the orders index_iterator may hold.
index_iterator ==
    IF shuffle THEN PermsOf(0..(Len(dataset) - 1)) ELSE {Identity(Len(dataset))}

\* Line 99.
GroupFull(group) == Len(group) = batch_size

EmitTailNever(group) == FALSE

EmitTailAlways(group) == Len(group) > 0

\* Line 103.
EmitTail(group) == Len(group) > 0 /\ ~drop_last

\* Lines 100 and 104: convert the group and yield it, or raise.
Emit(p, group, where) ==
    LET t == batch_to_tensor(combine_batch_dicts(RecordsOf(group)))
    IN  IF t.ok
        THEN [pc |-> where, pos |-> p, batch |-> group,
              res |-> <<[src |-> group, fields |-> t.val]>>]
        ELSE [pc |-> "raised", pos |-> p, batch |-> group, res |-> <<>>]

\* Lines 97-104: run the loop from position p with the group so far, up to
\* the next yield, raise or return.
RECURSIVE RunLoop(_, _, _)
RunLoop(ord, p, group) ==
    IF p < Len(ord)
    THEN LET g == Append(group, ord[p + 1])
         IN  IF GroupFull(g) THEN Emit(p + 1, g, "yield100")
             ELSE RunLoop(ord, p + 1, g)
    ELSE IF EmitTail(group) THEN Emit(p, group, "yield104")
    ELSE [pc |-> "done", pos |-> p, batch |-> group, res |-> <<>>]

\* ------------------------------------------------------ DataLoader.__len__
FloorDiv(a, b) ==
    IF b > 0 THEN a \div b ELSE (0 - a) \div (0 - b)

CeilDiv(a, b) == 0 - FloorDiv(0 - a, b)

len_floor ==
    IF batch_size = 0 THEN [ok |-> FALSE, err |-> "ZeroDivisionError"]
    ELSE [ok |-> TRUE, val |-> FloorDiv(Len(dataset), batch_size)]

\* [ok |-> TRUE, val |-> length], or ZeroDivisionError.
__len__ ==
    IF batch_size = 0 THEN [ok |-> FALSE, err |-> "ZeroDivisionError"]
    ELSE IF drop_last
    THEN [ok |-> TRUE, val |-> FloorDiv(Len(dataset), batch_size)]
    ELSE [ok |-> TRUE, val |-> CeilDiv(Len(dataset), batch_size)]

\* ------------------------------------------------------------------ actions
\* iter(loader): a new generator object in slot p; its body has not run yet.
Iter(p) ==
    /\ pc[p] \in {"idle", "done", "raised", "closed"}
    /\ pc' = [pc EXCEPT ![p] = "created"]
    /\ prev' = [prev EXCEPT ![p] = IF pc[p] = "idle" THEN "none" ELSE pc[p]]
    /\ order' = [order EXCEPT ![p] = <<>>]
    /\ pos' = [pos EXCEPT ![p] = 0]
    /\ batch' = [batch EXCEPT ![p] = <<>>]
    /\ out' = [out EXCEPT ![p] = <<>>]
    /\ UNCHANGED <<config, consumers, lenResult>>

\* next(generator): resume the body up to its next yield, raise or return.
NextBatch(p) ==
    /\ pc[p] \in {"created", "yield100", "yield104"}
    /\ \E ord \in (IF pc[p] = "created" THEN index_iterator ELSE {order[p]}) :
          LET r == IF pc[p] = "yield104"
                   THEN [pc |-> "done", pos |-> pos[p], batch |-> batch[p],
                         res |-> <<>>]
                   ELSE RunLoop(ord, pos[p], <<>>)
          IN  /\ order' = [order EXCEPT ![p] = ord]
              /\ pc' = [pc EXCEPT ![p] = r.pc]
              /\ pos' = [pos EXCEPT ![p] = r.pos]
              /\ batch' = [batch EXCEPT ![p] = r.batch]
              /\ out' = [out EXCEPT ![p] = out[p] \o r.res]
    /\ UNCHANGED <<config, consumers, prev, lenResult>>

\* The consumer stops consuming a generator that has not finished.
Close(p) ==
    /\ pc[p] \in {"created", "yield100", "yield104"}
    /\ pc' = [pc EXCEPT ![p] = "closed"]
    /\ order' = [order EXCEPT ![p] = <<>>]
    /\ pos' = [pos EXCEPT ![p] = 0]
    /\ batch' = [batch EXCEPT ![p] = <<>>]
    /\ out' = [out EXCEPT ![p] = <<>>]
    /\ UNCHANGED <<config, consumers, prev, lenResult>>

\* loader.__len__().
CallLen ==
    /\ lenResult' = <<__len__>>
    /\ lenResult' # lenResult
    /\ UNCHANGED <<config, consumers, locals>>

Next ==
    \/ \E p \in consumers : Iter(p)
    \/ \E p \in consumers : NextBatch(p)
    \/ \E p \in consumers : Close(p)
    \/ CallLen

\* ------------------------------------------------------------ initial states
\* Record i of a well-formed dataset: run_id "run_<i>", x a Tensor of shape
\* (3, 4) whose content is tagged i.
TensorX(i) == [kind |-> "Tensor", shape |-> <<3, 4>>, data |-> i]

RunId(i) == <<"r", "u", "n", "_">> \o Digits(i)

Canonical(n) == [i \in 1..n |-> [run_id |-> RunId(i - 1), x |-> TensorX(i - 1)]]

InitConfig ==
    /\ batch_size \in BatchSizes
    /\ shuffle \in BOOLEAN
    /\ drop_last \in BOOLEAN

InitLocals ==
    /\ pc = [p \in Passes |-> "idle"]
    /\ order = [p \in Passes |-> <<>>]
    /\ pos = [p \in Passes |-> 0]
    /\ batch = [p \in Passes |-> <<>>]
    /\ out = [p \in Passes |-> <<>>]
    /\ prev = [p \in Passes |-> "none"]
    /\ lenResult = <<>>

Init ==
    /\ dataset \in {Canonical(n) : n \in 0..MaxN}
    /\ consumers = {1}
    /\ InitConfig
    /\ InitLocals

Spec == Init /\ [][Next]_vars

\* Identifier values: well-formed ones, and ones without the separator or
\* without an integer after it.
RunIds ==
    { <<"r", "u", "n", "_", "1", "7">>,
      <<"s", "a", "m", "p", "l", "e", "_", "0", "4", "2">>,
      <<"a", "_", "b", "_", "7">>,
      <<"r", "u", "n", "_", "1", "6", "7", "7", "7", "2", "1", "7">>,
      <<"1", "7">>,
      <<"r", "u", "n", "1", "7">>,
      <<"r", "u", "n", "_", "x", "1">>,
      <<"r", "u", "n", "_">> }

Kinds == {"Tensor", "ndarray"}

Shapes == {<<3, 4>>, <<3, 5>>}

\* Datasets whose identifiers vary, every x a Tensor of shape (3, 4).
IdDatasets ==
    UNION {{[i \in 1..n |-> [run_id |-> ids[i], x |-> TensorX(i - 1)]] :
               ids \in [1..n -> RunIds]} : n \in 0..MaxRecs}

\* Datasets whose x values vary in type and shape, identifiers well-formed.
ShapeDatasets ==
    UNION {{[i \in 1..n |->
                [run_id |-> RunId(i - 1),
                 x |-> [kind |-> ks[i], shape |-> ss[i], data |-> i - 1]]] :
               ks \in [1..n -> Kinds], ss \in [1..n -> Shapes]} :
           n \in 0..MaxRecs}

InitData ==
    /\ dataset \in IdDatasets \cup ShapeDatasets
    /\ consumers = {1}
    /\ InitConfig
    /\ batch_size >= 1
    /\ InitLocals

SpecData == InitData /\ [][Next]_vars

\* A well-formed dataset in which record k - 1, if any, has an identifier
\* that int() rejects.
Damaged(n, k) ==
    [i \in 1..n |->
        [run_id |-> IF i = k THEN <<"r", "u", "n">> ELSE RunId(i - 1),
         x |-> TensorX(i - 1)]]

InitPasses ==
    /\ dataset \in {Damaged(n, k) : n \in 0..MaxPassN, k \in 0..MaxPassN}
    /\ consumers = Passes
    /\ InitConfig
    /\ InitLocals

SpecPasses == InitPasses /\ [][Next]_vars

\* ---------------------------------------------------- claims: shared terms
N == Len(dataset)

Min(a, b) == IF a < b THEN a ELSE b

Abs(n) == IF n < 0 THEN 0 - n ELSE n

IsPrefix(a, b) == Len(a) <= Len(b) /\ a = SubSeq(b, 1, Len(a))

RECURSIVE Flatten(_)
Flatten(ss) ==
    IF ss = <<>> THEN <<>>
    ELSE Flatten(SubSeq(ss, 1, Len(ss) - 1)) \o ss[Len(ss)]

\* What pass p has emitted so far, batch after batch, as one list: the
\* groups' dataset indices, the identifier entries, the x contents.
SrcOf(p) == Flatten([k \in 1..Len(out[p]) |-> out[p][k].src])

IdsOf(p) == Flatten([k \in 1..Len(out[p]) |-> out[p][k].fields.run_id.data])

XsOf(p) == Flatten([k \in 1..Len(out[p]) |-> out[p][k].fields.x.data])

\* The number of records of an emitted batch, read off its arrays.
SizeOf(b) == b.fields.x.shape[1]

\* The batches a full pass covers.
Covered == IF drop_last THEN (N \div batch_size) * batch_size ELSE N

\* ------------------------------------------------------------------- C1
\* C1: for batch_size >= 1, what __len__ returns is the number of batches a
\* completed pass has emitted: floor(N / batch_size) with drop_last,
\* ceil(N / batch_size) without; an empty dataset gives 0 and no batch.
C1_LengthAgreement ==
    \A p \in Passes :
        (batch_size >= 1 /\ pc[p] = "done" /\ lenResult # <<>>) =>
            /\ lenResult[1].ok
            /\ lenResult[1].val = Len(out[p])
            /\ drop_last =>
                  /\ lenResult[1].val * batch_size <= N
                  /\ N < (lenResult[1].val + 1) * batch_size
            /\ ~drop_last =>
                  /\ (lenResult[1].val - 1) * batch_size < N
                  /\ N <= lenResult[1].val * batch_size
            /\ N = 0 => (lenResult[1].val = 0 /\ out[p] = <<>>)

C1_Witness ==
    /\ pc[1] = "done" /\ lenResult # <<>>
    /\ N = 5 /\ batch_size = 2 /\ ~drop_last /\ shuffle
    /\ Len(out[1]) = 3

\* ------------------------------------------------------------------- C2
\* C2: for batch_size >= 1, in both shuffle modes, the indices in the emitted
\* batches are a duplicate-free prefix of the pass's traversal order; a
\* completed pass without drop_last holds every index of 0..N-1 exactly once,
\* and with drop_last exactly floor(N / batch_size) * batch_size of them, the
\* ones left out being the last N mod batch_size entries of the order.
C2_Coverage ==
    \A p \in Passes :
        batch_size >= 1 =>
            LET ids == IdsOf(p) IN
            /\ IsPrefix(ids, order[p])
            /\ XsOf(p) = ids
            /\ \A i, j \in 1..Len(ids) : i # j => ids[i] # ids[j]
            /\ (pc[p] = "done" /\ ~drop_last) =>
                  /\ Len(ids) = N
                  /\ {ids[i] : i \in 1..Len(ids)} = 0..(N - 1)
            /\ (pc[p] = "done" /\ drop_last) =>
                  /\ Len(ids) = (N \div batch_size) * batch_size
                  /\ order[p] =
                        ids \o SubSeq(order[p], N - (N % batch_size) + 1, N)

C2_Witness ==
    /\ pc[1] = "done" /\ drop_last /\ shuffle
    /\ N = 5 /\ batch_size = 3
    /\ IdsOf(1) = <<4, 0, 2>>
    /\ order[1] = <<4, 0, 2, 3, 1>>

\* ------------------------------------------------------------------- C3
\* C3: for batch_size >= 1 every emitted batch but the last has batch_size
\* records; the last batch of a completed pass has N mod batch_size records
\* if that is non-zero and drop_last is false, and batch_size otherwise; with
\* drop_last no batch is shorter than batch_size; no batch is ever empty.
C3_BatchSizing ==
    \A p \in Passes :
        \A k \in 1..Len(out[p]) :
            LET size == SizeOf(out[p][k]) IN
            /\ size > 0
            /\ size = Len(out[p][k].fields.run_id.data)
            /\ batch_size >= 1 =>
                  /\ k < Len(out[p]) => size = batch_size
                  /\ drop_last => size = batch_size
                  /\ (k = Len(out[p]) /\ pc[p] = "done") =>
                        size = IF N % batch_size # 0 /\ ~drop_last
                               THEN N % batch_size ELSE batch_size

C3_Witness ==
    /\ pc[1] = "done" /\ ~drop_last
    /\ N = 5 /\ batch_size = 3
    /\ Len(out[1]) = 2
    /\ SizeOf(out[1][1]) = 3 /\ SizeOf(out[1][2]) = 2

\* ------------------------------------------------------------------- C4
\* C4: without shuffle and with batch_size >= 1 the k-th emitted batch
\* (from 0) holds, for every field, the values of records k * batch_size,
\* k * batch_size + 1, ... in that order, and the batches of a completed pass
\* concatenate to the records 0..N-1 (to the covered prefix with drop_last).
\* In both shuffle modes position j of every field of a batch comes from the
\* j-th record of its group.
C4_Order ==
    \A p \in Passes :
        /\ \A k \in 1..Len(out[p]) :
              LET b == out[p][k] IN
              /\ Len(b.fields.x.data) = Len(b.src)
              /\ Len(b.fields.run_id.data) = Len(b.src)
              /\ \A j \in 1..Len(b.src) :
                    /\ b.fields.x.data[j] = dataset[b.src[j] + 1].x.data
                    /\ b.fields.run_id.data[j] = b.src[j]
                    /\ (~shuffle /\ batch_size >= 1) =>
                          /\ b.fields.x.data[j] = (k - 1) * batch_size + j - 1
                          /\ b.fields.run_id.data[j] =
                                (k - 1) * batch_size + j - 1
        /\ (~shuffle /\ batch_size >= 1 /\ pc[p] = "done") =>
              /\ IdsOf(p) = Identity(Covered)
              /\ XsOf(p) = Identity(Covered)

C4_Witness ==
    /\ pc[1] = "done" /\ ~shuffle /\ ~drop_last
    /\ N = 5 /\ batch_size = 2
    /\ out[1][2].fields.run_id.data = <<2, 3>>
    /\ out[1][3].fields.x.data = <<4>>

\* ------------------------------------------------------------------- C9
\* C9: with batch_size < 1 iteration emits no batch and __len__ returns no
\* batch count.
C9_RejectsNonPositive ==
    batch_size < 1 =>
        /\ \A p \in Passes : out[p] = <<>>
        /\ lenResult # <<>> => ~lenResult[1].ok

\* --------------------------------------------- claims on the record contents
\* The identifier and the x value of record i (from 0).
IdOf(i) == dataset[i + 1].run_id

XOf(i) == dataset[i + 1].x

\* The place of the last "_" of an identifier, 0 if it has none.
LastSep(id) ==
    IF \E i \in 1..Len(id) : id[i] = "_"
    THEN CHOOSE i \in 1..Len(id) :
             id[i] = "_" /\ \A m \in (i + 1)..Len(id) : id[m] # "_"
    ELSE 0

Suffix(id) == SubSeq(id, LastSep(id) + 1, Len(id))

\* Decimal integer text: an optional minus sign and at least one digit.
IsIntegerText(t) ==
    LET ds == IF Len(t) > 0 /\ t[1] = "-" THEN Tail(t) ELSE t
    IN  Len(ds) > 0 /\ \A i \in 1..Len(ds) : IsDigit(ds[i])

IntegerOf(t) ==
    IF t[1] = "-" THEN 0 - DecimalValue(Tail(t)) ELSE DecimalValue(t)

\* The identifier has the form <prefix>_<integer>.
HasForm(id) == LastSep(id) > 0 /\ IsIntegerText(Suffix(id))

\* ------------------------------------------------------------------- C5
\* C5: no batch is emitted for a group of more than one record in which two
\* records' x values differ in shape.
C5_ShapeMismatchRaises ==
    \A p \in Passes :
        \A k \in 1..Len(out[p]) :
            LET g == out[p][k].src IN
            Len(g) > 1 =>
                \A i, j \in 1..Len(g) : XOf(g[i]).shape = XOf(g[j]).shape

\* ------------------------------------------------------------------- C6
\* C6: in every emitted batch of m records whose x values all have shape S,
\* the x array has shape (m, *S), whether the values are Tensors or not.
C6_LeadingBatchDimension ==
    \A p \in Passes :
        \A k \in 1..Len(out[p]) :
            LET g == out[p][k].src IN
            (\A j \in 1..Len(g) : XOf(g[j]).shape = XOf(g[1]).shape) =>
                out[p][k].fields.x.shape = <<Len(g)>> \o XOf(g[1]).shape

\* ------------------------------------------------------------------- C7
\* C7 as stated: in every emitted batch whose identifiers all have the form
\* <prefix>_<integer>, the identifier entry is a 1-D array of the group's
\* length whose j-th element is the integer after the last "_" of the j-th
\* record's identifier.
C7_ExactInteger ==
    \A p \in Passes :
        \A k \in 1..Len(out[p]) :
            LET g == out[p][k].src
                ids == out[p][k].fields.run_id
            IN  (\A j \in 1..Len(g) : HasForm(IdOf(g[j]))) =>
                    /\ ids.shape = <<Len(g)>>
                    /\ Len(ids.data) = Len(g)
                    /\ \A j \in 1..Len(g) :
                          ids.data[j] = IntegerOf(Suffix(IdOf(g[j])))

\* C7 amended: the j-th element is the single-precision float nearest to that
\* integer: the integer itself when its magnitude is at most 2^24, and within
\* a relative error of 2^-24 of it otherwise; and a group whose identifiers
\* all have the form is converted without an error.
C7_Float32Integer ==
    \A p \in Passes :
        /\ \A k \in 1..Len(out[p]) :
              LET g == out[p][k].src
                  ids == out[p][k].fields.run_id
              IN  (\A j \in 1..Len(g) : HasForm(IdOf(g[j]))) =>
                      /\ ids.shape = <<Len(g)>>
                      /\ Len(ids.data) = Len(g)
                      /\ \A j \in 1..Len(g) :
                            LET n == IntegerOf(Suffix(IdOf(g[j]))) IN
                            /\ Abs(n) <= 2^24 => ids.data[j] = n
                            /\ Abs(ids.data[j] - n) * 2^24 <= Abs(n)
        /\ pc[p] = "raised" =>
              \E j \in 1..Len(batch[p]) : ~HasForm(IdOf(batch[p][j]))

C7_Witness ==
    \E k \in 1..Len(out[1]) :
        /\ Len(out[1][k].src) = 2
        /\ IdOf(out[1][k].src[1]) = <<"a", "_", "b", "_", "7">>
        /\ IdOf(out[1][k].src[2]) =
              <<"r", "u", "n", "_", "1", "6", "7", "7", "7", "2", "1", "7">>
        /\ out[1][k].fields.run_id.data = <<7, 16777216>>

\* ------------------------------------------------------------------- C8
\* C8: no batch is emitted for a group holding a record whose identifier
\* lacks the "_" separator or has no integer after the last "_".
C8_MalformedIdRaises ==
    \A p \in Passes :
        \A k \in 1..Len(out[p]) :
            \A j \in 1..Len(out[p][k].src) : HasForm(IdOf(out[p][k].src[j]))

\* ------------------------------------------------------------------ C10
\* What C10 says of every state: each pass has emitted the groups of its own
\* traversal order from its first index on, batch after batch, whatever the
\* other pass and the earlier passes did, and all of them once it completed;
\* without shuffle, of two passes one has emitted a prefix of what the other
\* has, and two completed passes have emitted the same batches.
PassesIndependent ==
    \A p \in Passes :
        /\ batch_size >= 1 =>
              /\ \A k \in 1..Len(out[p]) :
                    /\ out[p][k].src =
                          SubSeq(order[p], (k - 1) * batch_size + 1,
                                 Min(k * batch_size, N))
                    /\ out[p][k].fields.x.data = out[p][k].src
                    /\ out[p][k].fields.run_id.data = out[p][k].src
              /\ pc[p] = "done" => Len(SrcOf(p)) = Covered
        /\ \A q \in Passes :
              ~shuffle =>
                  /\ IsPrefix(out[p], out[q]) \/ IsPrefix(out[q], out[p])
                  /\ (pc[p] = "done" /\ pc[q] = "done") => out[p] = out[q]

\* C10: iteration never changes the configuration (dataset, batch_size,
\* shuffle, drop_last), and after every step every pass, started after a
\* completed, abandoned or failed pass or interleaved with another one, has
\* emitted the batches of its own traversal order from its first index on;
\* without shuffle two passes emit identical batch sequences.
C10_PassesIndependent == [][config' = config /\ PassesIndependent']_vars

C10_Witness ==
    /\ ~shuffle /\ batch_size = 1 /\ N = 2
    /\ prev[1] = "closed" /\ pc[1] = "done" /\ Len(out[1]) = 2
    /\ prev[2] = "done" /\ pc[2] = "yield100" /\ Len(out[2]) = 1

====
